---------------------------- MODULE Spec2Model ----------------------------
(***************************************************************************)
(* A model of light-monitor-kyiv (src/main.py): the two feed parsers, the  *)
(* period compressor, the source merger, the renderer's totals and the     *)
(* run of main() against the persisted cache and the message-id list.      *)
(*                                                                         *)
(* Conventions of the translation                                          *)
(*  - a Python dict is a function whose DOMAIN is the set of its keys; the *)
(*    empty dict is << >>.                                                 *)
(*  - Python's None is << >> as well.  Every place where the code meets a  *)
(*    value that may be None tests it by truthiness ("if not data", "if    *)
(*    not d", "if not slots", "if msg"), which treats None, {} and [] the  *)
(*    same, and no slot list the code builds is ever empty.                *)
(*  - a Python list is a sequence; slot i of the code (0-based) is element *)
(*    i + 1 of the sequence.                                               *)
(*  - hours are counted in half-hours: the code's (i - start) * 0.5 is the *)
(*    integer i - start here, so 2 stands for 1.0 and 3 for 1.5.           *)
(*  - a date string "%Y-%m-%d" is the number of its day since 1970-01-01:  *)
(*    for four-digit years the string order is the order of the days.      *)
(*  - the Ukrainian words are transliterated: godyna, godyny, godyn.       *)
(***************************************************************************)
EXTENDS Integers, Sequences, FiniteSets, TLC

VARIABLES
    pc,         \* the stage of the pipeline under check
    cfg_style,  \* cfg['settings']['style']
    gh_data,    \* Source A feed document, as fetch_github returned it
    ya_data,    \* Source B feed document, as fetch_yasno returned it
    gh_sched,   \* extract_github's result
    ya_sched,   \* extract_yasno's result
    msg,        \* format_msg's result: the blocks of the message
    slots,      \* the timeline handed to slots_to_periods
    periods,    \* slots_to_periods' result
    cache,      \* the content of last_schedules.json
    ids,        \* the content of message_ids.json
    chat,       \* the channel: the messages delivered and not deleted, the pin
    last        \* what the latest run of main() did

vars == <<pc, cfg_style, gh_data, ya_data, gh_sched, ya_sched, msg, slots,
          periods, cache, ids, chat, last>>

None == << >>

----------------------------------------------------------------------------
(* Configuration and module constants                                      *)

MAX_MESSAGES == 3

KYIV_TZ == 7200

SecondsPerDay == 86400

NSlots == 48

\* cfg['settings']['groups'], in configuration order
Groups == <<"GPV1.1", "GPV2.1">>

\* grp.replace("GPV", "")
GroupKey(grp) == CASE grp = "GPV1.1" -> "1.1"
                   [] grp = "GPV2.1" -> "2.1"
                   [] OTHER -> grp

\* cfg['sources'][src]['name']
SourceName(src) == CASE src = "github" -> "GitHub"
                     [] src = "yasno" -> "Yasno"
                     [] OTHER -> src

\* dict.get(key, default)
Get(d, k, default) == IF k \in DOMAIN d THEN d[k] ELSE default

\* d[k] = v on a dict
Put(d, k, v) == [x \in DOMAIN d \cup {k} |-> IF x = k THEN v ELSE d[x]]

Min(a, b) == IF a < b THEN a ELSE b

RECURSIVE Sorted(_)
\* sorted(keys): ascending
Sorted(S) == IF S = {} THEN << >>
             ELSE LET m == CHOOSE x \in S : \A y \in S : x <= y
                  IN <<m>> \o Sorted(S \ {m})

\* seq[:2]
FirstTwo(seq) == SubSeq(seq, 1, Min(2, Len(seq)))

\* datetime.fromtimestamp(int(ts), tz=KYIV_TZ).strftime("%Y-%m-%d")
DateOfTimestamp(ts) == (ts + KYIV_TZ) \div SecondsPerDay

----------------------------------------------------------------------------
(* Formatting helpers                                                      *)

\* format_hours_full: hours in half-hours; the result is the number printed
\* (in half-hours too) and the word after it.
format_hours_full(hours) ==
    IF hours % 2 # 0
    THEN [n |-> hours, word |-> "godyny"]
    ELSE LET h == hours \div 2
         IN IF h % 10 = 1 /\ h % 100 # 11
            THEN [n |-> hours, word |-> "godyna"]
            ELSE IF h % 10 \in {2, 3, 4} /\ h % 100 \notin {12, 13, 14}
                 THEN [n |-> hours, word |-> "godyny"]
                 ELSE [n |-> hours, word |-> "godyn"]

\* format_hours_short: "<n>g", the integer collapsed when whole
format_hours_short(hours) == [n |-> hours, word |-> "g"]

\* format_slot_time: <<h, m>> stands for "hh:mm"
format_slot_time(slot) ==
    LET mins == slot * 30
        h == mins \div 60
        m == mins % 60
    IN IF h = 24 THEN <<24, 0>> ELSE <<h, m>>

----------------------------------------------------------------------------
(* Parsing: Source A                                                       *)

Hours == 1..24

\* the two slots one hour's tag expands to
HourSlots(s) == CASE s = "yes" -> <<TRUE, TRUE>>
                  [] s = "no" -> <<FALSE, FALSE>>
                  [] s = "first" -> <<FALSE, TRUE>>
                  [] s = "second" -> <<TRUE, FALSE>>
                  [] OTHER -> <<TRUE, TRUE>>

RECURSIVE parse_github_hours(_, _)
parse_github_hours(day_data, h) ==
    IF h > 24 THEN << >>
    ELSE HourSlots(Get(day_data, h, "yes")) \o parse_github_hours(day_data, h + 1)

\* the hours read as range(0, 24)
parse_github_day_from_zero(day_data) ==
    SubSeq(parse_github_hours(day_data, 0), 1, NSlots)

parse_github_day(day_data) == parse_github_hours(day_data, 1)

\* the all(...) of extract_github
AllHoursYes(d) == \A h \in Hours : Get(d, h, "yes") = "yes"

\* one day of extract_github's result
GithubEntry(d, ts) ==
    IF AllHoursYes(d)
    THEN [slots |-> None, date |-> DateOfTimestamp(ts), status |-> "pending"]
    ELSE [slots |-> parse_github_day(d), date |-> DateOfTimestamp(ts),
          status |-> "normal"]

\* data.get("fact", {}).get("data", {})
GithubFact(data) == Get(Get(data, "fact", << >>), "data", << >>)

RECURSIVE GithubDays(_, _, _, _)
\* the inner loop of extract_github over the keys it kept, from key k on
GithubDays(fact, grp, keys, k) ==
    IF k > Len(keys) THEN << >>
    ELSE LET ts == keys[k]
             d == Get(fact[ts], grp, None)
             rest == GithubDays(fact, grp, keys, k + 1)
         IN \* the loop assigns in key order: a later key of the same date wins
            IF d = None THEN rest
            ELSE IF DateOfTimestamp(ts) \in DOMAIN rest THEN rest
                 ELSE Put(rest, DateOfTimestamp(ts), GithubEntry(d, ts))

\* the day keys extract_github reads: sorted(fact.keys(), key=int)[:2]
GithubKeys(fact) == FirstTwo(Sorted(DOMAIN fact))

extract_github(data) ==
    IF data = None THEN << >>
    ELSE LET fact == GithubFact(data)
         IN [grp \in {Groups[i] : i \in DOMAIN Groups} |->
                GithubDays(fact, grp, GithubKeys(fact), 1)]

----------------------------------------------------------------------------
(* Parsing: Source B                                                       *)

\* slots[i] for a Python index: a negative i counts from the end of the list
PyIndex(i) == IF i < 0 THEN i + NSlots ELSE i

IntervalStart(s) == Get(s, "start", 0) \div 30

IntervalEnd(s) == Get(s, "end", 0) \div 30

\* s.get("type") == "NotPlanned"; "None" stands for the absent type
IntervalIsOn(s) == Get(s, "type", "None") = "NotPlanned"

\* the indices range(start, min(end, 48)) runs over
IntervalRange(s) == IntervalStart(s)..(Min(IntervalEnd(s), NSlots) - 1)

\* slots[i] = is_on raises IndexError for an index below -48
IntervalRaises(s) == \E i \in IntervalRange(s) : i < -NSlots

\* the inner loop "for i in range(start, min(end, 48)): slots[i] = is_on"
ApplyInterval(tl, s) ==
    [j \in 1..NSlots |->
        IF \E i \in IntervalRange(s) : PyIndex(i) = j - 1
        THEN IntervalIsOn(s)
        ELSE tl[j]]

RECURSIVE ApplyIntervals(_, _, _)
\* the loop "for s in d['slots']", from interval k on
ApplyIntervals(tl, intervals, k) ==
    IF k > Len(intervals) THEN tl
    ELSE ApplyIntervals(ApplyInterval(tl, intervals[k]), intervals, k + 1)

\* [True] * 48
AllOn == [j \in 1..NSlots |-> TRUE]

\* whether the loop body of extract_yasno skips this day
YasnoDaySkipped(d) == d = None \/ "date" \notin DOMAIN d

\* one day of extract_yasno's result
YasnoEntry(d) ==
    IF Get(d, "status", "") = "EmergencyShutdowns"
    THEN [slots |-> None, date |-> d["date"], status |-> "emergency"]
    ELSE IF Get(d, "slots", << >>) = << >>
         THEN [slots |-> None, date |-> d["date"], status |-> "pending"]
         ELSE [slots |-> ApplyIntervals(AllOn, d["slots"], 1),
               date |-> d["date"], status |-> "normal"]

\* whether building this day's timeline raises IndexError
YasnoDayRaises(d) ==
    /\ ~YasnoDaySkipped(d)
    /\ Get(d, "status", "") # "EmergencyShutdowns"
    /\ \E k \in DOMAIN Get(d, "slots", << >>) : IntervalRaises(d["slots"][k])

YasnoDayNames == <<"today", "tomorrow">>

RECURSIVE YasnoDays(_, _)
\* the loop "for day in ['today', 'tomorrow']", from day k on
YasnoDays(grpdata, k) ==
    IF k > Len(YasnoDayNames) THEN << >>
    ELSE LET d == Get(grpdata, YasnoDayNames[k], None)
             rest == YasnoDays(grpdata, k + 1)
         IN IF YasnoDaySkipped(d) THEN rest
            ELSE IF d["date"] \in DOMAIN rest THEN rest
                 ELSE Put(rest, d["date"], YasnoEntry(d))

\* the groups extract_yasno has an entry for
YasnoGroups(data) ==
    {Groups[i] : i \in {j \in DOMAIN Groups : GroupKey(Groups[j]) \in DOMAIN data}}

\* extract_yasno propagates the IndexError of a slot assignment
extract_yasno_raises(data) ==
    /\ data # None
    /\ \E grp \in YasnoGroups(data) : \E k \in DOMAIN YasnoDayNames :
          YasnoDayRaises(Get(data[GroupKey(grp)], YasnoDayNames[k], None))

extract_yasno(data) ==
    IF data = None THEN << >>
    ELSE [grp \in YasnoGroups(data) |-> YasnoDays(data[GroupKey(grp)], 1)]

----------------------------------------------------------------------------
(* Processing: the period compressor                                       *)

\* a period whose duration counts the slot after its end
Period_inclusive_end(start, end, is_on) ==
    [start |-> format_slot_time(start), end |-> format_slot_time(end),
     is_on |-> is_on, hours |-> end - start + 1]

\* one dict of slots_to_periods' result, for the run of slots start..end-1
Period(start, end, is_on) ==
    [start |-> format_slot_time(start), end |-> format_slot_time(end),
     is_on |-> is_on, hours |-> end - start]

RECURSIVE ScanPeriods(_, _, _, _)
\* the loop "for i in range(1, len(slots))" and the append after it
ScanPeriods(sl, i, curr, start) ==
    IF i >= Len(sl) THEN <<Period(start, Len(sl), curr)>>
    ELSE IF sl[i + 1] # curr
         THEN <<Period(start, i, curr)>> \o ScanPeriods(sl, i + 1, sl[i + 1], i)
         ELSE ScanPeriods(sl, i + 1, curr, start)

slots_to_periods(sl) ==
    IF sl = << >> THEN << >> ELSE ScanPeriods(sl, 1, sl[1], 0)

----------------------------------------------------------------------------
(* Formatting: the renderer and the source merger                          *)

RECURSIVE TotalHours(_, _, _)
\* total_on (is_on = TRUE) or total_off of the rendering loop, from period k on
TotalHours(ps, is_on, k) ==
    IF k > Len(ps) THEN 0
    ELSE (IF ps[k].is_on = is_on THEN ps[k].hours ELSE 0)
         + TotalHours(ps, is_on, k + 1)

\* the summary lines both layouts end with
Summary(ps) ==
    [on |-> format_hours_full(TotalHours(ps, TRUE, 1)),
     off |-> format_hours_full(TotalHours(ps, FALSE, 1))]

render_table(ps) ==
    [kind |-> "table",
     rows |-> [k \in DOMAIN ps |->
                 [column |-> IF ps[k].is_on THEN "on" ELSE "off",
                  time_range |-> <<ps[k].start, ps[k].end>>,
                  dur |-> format_hours_short(ps[k].hours)]],
     summary |-> Summary(ps)]

render_list(ps) ==
    [kind |-> "list",
     rows |-> [k \in DOMAIN ps |->
                 [column |-> IF ps[k].is_on THEN "on" ELSE "off",
                  time_range |-> <<ps[k].start, ps[k].end>>,
                  dur |-> format_hours_full(ps[k].hours)]],
     summary |-> Summary(ps)]

\* format_day: the header's date and source label, and the body under it
format_day(data, date, src, style) ==
    [date |-> date,
     label |-> <<SourceName(src)>>,
     body |-> IF data.status = "emergency" THEN [kind |-> "emergency"]
              ELSE IF data.status = "pending" THEN [kind |-> "pending"]
              ELSE IF data.slots # << >>
                   THEN IF style = "table"
                        THEN render_table(slots_to_periods(data.slots))
                        ELSE render_list(slots_to_periods(data.slots))
                   ELSE [kind |-> "header only"]]

\* base.replace("[<old>]", "[<new>]") on a formatted day
ReplaceLabel(base, old, new) ==
    IF base.label = old THEN [base EXCEPT !.label = new] ELSE base

\* the match without the comparison of the timelines
SourcesMatch_by_status(g_d, y_d) ==
    /\ g_d # None /\ y_d # None
    /\ g_d.status = "normal" /\ y_d.status = "normal"

\* the "Check if both match" of format_msg
SourcesMatch(g_d, y_d) ==
    /\ g_d # None /\ y_d # None
    /\ g_d.status = "normal" /\ y_d.status = "normal"
    /\ g_d.slots = y_d.slots

\* src_msgs of format_msg for one group and date
SourceMsgs(g_d, y_d, style) ==
    LET dt == (IF g_d # None THEN g_d ELSE y_d).date
    IN IF SourcesMatch(g_d, y_d)
       THEN <<ReplaceLabel(format_day(g_d, dt, "github", style),
                           <<SourceName("github")>>,
                           <<SourceName("github"), SourceName("yasno")>>)>>
       ELSE (IF g_d # None THEN <<format_day(g_d, dt, "github", style)>> ELSE << >>)
            \o (IF y_d # None THEN <<format_day(y_d, dt, "yasno", style)>> ELSE << >>)

\* the dates format_msg renders for a group: sorted(dates)[:2]
RenderedDates(gh, ya, grp) ==
    FirstTwo(Sorted(DOMAIN Get(gh, grp, << >>) \cup DOMAIN Get(ya, grp, << >>)))

\* day_msgs of format_msg for one group
DayMsgs(gh, ya, grp, style) ==
    LET dates == RenderedDates(gh, ya, grp)
    IN [k \in DOMAIN dates |->
          SourceMsgs(Get(Get(gh, grp, << >>), dates[k], None),
                     Get(Get(ya, grp, << >>), dates[k], None), style)]

RECURSIVE GroupBlocks(_, _, _, _)
\* the loop "for grp in groups" of format_msg, from group k on
GroupBlocks(gh, ya, style, k) ==
    IF k > Len(Groups) THEN << >>
    ELSE LET day_msgs == DayMsgs(gh, ya, Groups[k], style)
             rest == GroupBlocks(gh, ya, style, k + 1)
         IN IF day_msgs = << >> THEN rest
            ELSE <<[header |-> GroupKey(Groups[k]), body |-> day_msgs]>> \o rest

\* format_msg: the blocks of the message, None when there are none (the footer
\* with the time of the run is left out)
format_msg(gh, ya, style) == GroupBlocks(gh, ya, style, 1)

Range(seq) == {seq[k] : k \in DOMAIN seq}

----------------------------------------------------------------------------
(* Inputs: the feed documents the checks draw from                         *)

\* the day keys of a Source A document carry at most this many days
MaxDayKeys == 3

\* the hours 1..MaxTagHour of a Source A day carry any tag or none
MaxTagHour == 5

\* a Source B day lists at most this many intervals
MaxIntervals == 2

\* a timeline handed to the compressor alone has at most this many slots
MaxLen == 6

\* 2025-11-06 00:00 in Kyiv, as a Unix timestamp
FirstDayKey == 20398 * SecondsPerDay - KYIV_TZ

\* 2025-11-06, as a day number
FirstDay == DateOfTimestamp(FirstDayKey)

DayKeys == {FirstDayKey + k * SecondsPerDay : k \in 0..(MaxDayKeys - 1)}

Styles == {"table", "list"}

GroupSet == {Groups[i] : i \in DOMAIN Groups}

\* the tags of the feed, and one it does not define
Tags == {"yes", "no", "first", "second", "maybe"}

PartialDays == UNION {[D -> Tags] : D \in SUBSET (1..MaxTagHour)}

\* a day that states every hour, "yes" where p is silent
FullDay(p) == [h \in Hours |-> IF h \in DOMAIN p THEN p[h] ELSE "yes"]

DayPayloads == PartialDays \cup {FullDay(p) : p \in PartialDays}

NoAtFive == FullDay([h \in {5} |-> "no"])

AllYes == FullDay(<< >>)

\* a Source A document
GithubDoc(fact) == [fact |-> [data |-> fact]]

\* the documents over the day keys K whose days are drawn from days, for
\* any subset of the groups G
GithubDocsOver(K, G, days) ==
    LET perKey == UNION {[g -> days] : g \in SUBSET G}
    IN {GithubDoc(f) : f \in UNION {[k -> perKey] : k \in SUBSET K}}

\* one day of one group, every payload
GithubDayDocs ==
    {GithubDoc([ts \in {FirstDayKey} |-> [g \in {Groups[1]} |-> d]]) :
        d \in DayPayloads}

\* several day keys, each with or without data for each group
GithubKeyDocs == GithubDocsOver(DayKeys, GroupSet, {NoAtFive, AllYes})

\* minutes of the day, before it, past it, and off the half-hour grid
Minutes == {-1470, -30, 0, 45, 1410, 1500}

Optional(S) == {<< >>} \cup {<<x>> : x \in S}

\* an interval with the fields that are given
Interval(st, en, ty) ==
    [k \in (IF st = << >> THEN {} ELSE {"start"})
            \cup (IF en = << >> THEN {} ELSE {"end"})
            \cup (IF ty = << >> THEN {} ELSE {"type"}) |->
        CASE k = "start" -> st[1] [] k = "end" -> en[1] [] OTHER -> ty[1]]

Intervals ==
    {Interval(st, en, ty) : st \in Optional(Minutes), en \in Optional(Minutes),
                            ty \in Optional({"Definite", "NotPlanned"})}

IntervalLists == UNION {[1..n -> Intervals] : n \in 1..MaxIntervals}

\* one day of one group, every interval list
YasnoDayDocs ==
    {[key \in {GroupKey(Groups[1])} |->
        [dn \in {"today"} |->
            [date |-> FirstDay, status |-> "ScheduleApplies", slots |-> ivs]]] :
        ivs \in IntervalLists}

Outage(st, en) == [start |-> st, end |-> en, type |-> "Definite"]

\* the days of Source B the merge is checked with: an emergency, a day
\* without intervals, the outage of NoAtFive, and one a slot shorter
YasnoDaysOn(date) ==
    {[date |-> date, status |-> "EmergencyShutdowns", slots |-> << >>],
     [date |-> date, status |-> "ScheduleApplies", slots |-> << >>],
     [date |-> date, status |-> "ScheduleApplies", slots |-> <<Outage(240, 300)>>],
     [date |-> date, status |-> "ScheduleApplies", slots |-> <<Outage(240, 270)>>]}

\* the today and tomorrow of one group
YasnoGroupDocs ==
    LET todays == YasnoDaysOn(FirstDay)
                  \cup {[status |-> "ScheduleApplies", slots |-> <<Outage(0, 60)>>]}
        tomorrows == YasnoDaysOn(FirstDay + 1)
    IN {<< >>} \cup {[dn \in {"today"} |-> d] : d \in todays}
       \cup {[dn \in {"tomorrow"} |-> d] : d \in tomorrows}
       \cup {[dn \in {"today", "tomorrow"} |-> IF dn = "today" THEN p[1] ELSE p[2]] :
                p \in todays \X tomorrows}

YasnoSmallDocs ==
    UNION {[K -> YasnoGroupDocs] : K \in SUBSET {GroupKey(g) : g \in GroupSet}}

----------------------------------------------------------------------------
(* The pipeline of one run, stage by stage: main() from the fetched        *)
(* documents to the message                                                *)

\* gh_sched = extract_github(gh_data, cfg)
ExtractGithub ==
    /\ pc = "fetched"
    /\ gh_sched' = extract_github(gh_data)
    /\ pc' = "github"
    /\ UNCHANGED <<cfg_style, gh_data, ya_data, ya_sched, msg, slots, periods,
                   cache, ids, chat, last>>

\* ya_sched = extract_yasno(ya_data, cfg); an IndexError ends the run
ExtractYasno ==
    /\ pc = "github"
    /\ IF extract_yasno_raises(ya_data)
       THEN pc' = "IndexError" /\ UNCHANGED ya_sched
       ELSE pc' = "extracted" /\ ya_sched' = extract_yasno(ya_data)
    /\ UNCHANGED <<cfg_style, gh_data, ya_data, gh_sched, msg, slots, periods,
                   cache, ids, chat, last>>

\* msg = format_msg(gh_sched, ya_sched, cfg)
FormatMsg ==
    /\ pc = "extracted"
    /\ msg' = format_msg(gh_sched, ya_sched, cfg_style)
    /\ pc' = "formatted"
    /\ UNCHANGED <<cfg_style, gh_data, ya_data, gh_sched, ya_sched, slots,
                   periods, cache, ids, chat, last>>

PipelineNext == ExtractGithub \/ ExtractYasno \/ FormatMsg

\* the files and the channel as the pipeline finds them: no run has ended
RunIdle ==
    /\ cache = << >>
    /\ ids = << >>
    /\ chat = [sent |-> 0, messages |-> {}, pinned |-> 0]
    /\ last = [outcome |-> "none"]

PipelineInit(ghDocs, yaDocs) ==
    /\ pc = "fetched"
    /\ cfg_style \in Styles
    /\ gh_data \in ghDocs
    /\ ya_data \in yaDocs
    /\ gh_sched = None /\ ya_sched = None /\ msg = None
    /\ slots = None /\ periods = None
    /\ RunIdle

\* Source A alone: every payload of one day, and every choice of day keys
InitGithub == PipelineInit(GithubDayDocs \cup GithubKeyDocs, {None})

SpecGithub == InitGithub /\ [][PipelineNext]_vars

\* Source B alone: every interval list of one day, and the small documents
InitYasno == PipelineInit({None}, YasnoDayDocs \cup YasnoSmallDocs)

SpecYasno == InitYasno /\ [][PipelineNext]_vars

\* the documents of YasnoDayDocs whose minutes lie within the day
YasnoInDayDocs ==
    {doc \in YasnoDayDocs :
        \A s \in Range(doc[GroupKey(Groups[1])]["today"]["slots"]) :
            /\ Get(s, "start", 0) \in 0..1440
            /\ Get(s, "end", 0) \in 0..1440}

\* either source alone, one day of one group: every payload of Source A,
\* every interval list of Source B that stays within the day
InitDay ==
    \/ PipelineInit(GithubDayDocs, {None})
    \/ PipelineInit({None}, YasnoInDayDocs)

SpecDay == InitDay /\ [][PipelineNext]_vars

MergeKeys == {FirstDayKey, FirstDayKey + SecondsPerDay}

\* Source B for the merge: every today and tomorrow of the first group, and
\* the second group absent or with the outage of NoAtFive today
YasnoMergeDocs ==
    LET second == [dn \in {"today"} |->
                     [date |-> FirstDay, status |-> "ScheduleApplies",
                      slots |-> <<Outage(240, 300)>>]]
    IN {None}
       \cup {[key \in {GroupKey(Groups[1])} |-> d] : d \in YasnoGroupDocs}
       \cup {[key \in {GroupKey(Groups[2])} |-> second]}
       \cup {[key \in {GroupKey(Groups[1]), GroupKey(Groups[2])} |->
                 IF key = GroupKey(Groups[1]) THEN d ELSE second] :
                 d \in YasnoGroupDocs}

\* both sources
InitMerge ==
    PipelineInit({None} \cup GithubDocsOver(MergeKeys, GroupSet, {NoAtFive, AllYes}),
                 YasnoMergeDocs)

SpecMerge == InitMerge /\ [][PipelineNext]_vars

----------------------------------------------------------------------------
(* Claims about the parsers, the merger and the renderer                   *)

\* the payload Source A has for a group under a day key, None when it has none
GithubPayload(grp, ts) == Get(GithubFact(gh_data)[ts], grp, None)

\* what an hour's tag resolves to: an undefined tag is read as "yes"
Resolved(d, h) ==
    LET s == Get(d, h, "yes")
    IN IF s \in {"yes", "no", "first", "second"} THEN s ELSE "yes"

\* the days of the snapshot with the payload they were built from; the day
\* keys of the documents checked fall on different dates
GithubBuilt ==
    {<<grp, ts>> \in GroupSet \X DOMAIN GithubFact(gh_data) :
        /\ GithubPayload(grp, ts) # None
        /\ grp \in DOMAIN gh_sched
        /\ DateOfTimestamp(ts) \in DOMAIN gh_sched[grp]}

GithubEntryOf(b) == gh_sched[b[1]][DateOfTimestamp(b[2])]

\* C5: a non-empty Source A day whose hours all resolve to yes (tagged yes,
\* missing, or tagged with an undefined tag) is pending and has no timeline;
\* a day is normal, with 48 slots, only when an hour is tagged no, first or
\* second.
C5_PendingWhenAllYes ==
    pc # "fetched" =>
        \A b \in GithubBuilt :
            LET d == GithubPayload(b[1], b[2])
                e == GithubEntryOf(b)
            IN /\ (\A h \in Hours : Resolved(d, h) = "yes")
                     => (e.status = "pending" /\ e.slots = None)
               /\ e.status = "normal"
                     => /\ Len(e.slots) = NSlots
                        /\ \E h \in Hours : Get(d, h, "yes") \in {"no", "first", "second"}

\* the two earliest of a set of dates
TwoEarliest(dates) == Range(FirstTwo(Sorted(dates)))

\* the dates Source A has data for, for a group
GithubAvailable(grp) ==
    {DateOfTimestamp(ts) : ts \in {t \in DOMAIN GithubFact(gh_data) :
                                      GithubPayload(grp, t) # None}}

\* the dates Source B has data for, for a group
YasnoAvailable(grp) ==
    LET g == Get(ya_data, GroupKey(grp), << >>)
    IN {g[dn]["date"] : dn \in {n \in DOMAIN g : ~YasnoDaySkipped(g[n])}}

\* C7: for each source and each group the snapshot retains the two earliest
\* dates the feed has data for, for that group, and never more than two.
C7_TwoEarliestDates ==
    /\ (pc # "fetched" /\ gh_data # None) =>
          \A grp \in GroupSet :
              /\ DOMAIN Get(gh_sched, grp, << >>) = TwoEarliest(GithubAvailable(grp))
              /\ Cardinality(DOMAIN Get(gh_sched, grp, << >>)) <= 2
    /\ (pc \in {"extracted", "formatted"} /\ ya_data # None) =>
          \A grp \in GroupSet :
              /\ DOMAIN Get(ya_sched, grp, << >>) = TwoEarliest(YasnoAvailable(grp))
              /\ Cardinality(DOMAIN Get(ya_sched, grp, << >>)) <= 2

\* a bound clamped to [0, 48]
Clamp(x) == IF x < 0 THEN 0 ELSE IF x > NSlots THEN NSlots ELSE x

\* the intervals of a list whose clamped range [start div 30, end div 30)
\* contains slot i (0-based)
Covering(ivs, i) ==
    {k \in DOMAIN ivs : /\ Clamp(Get(ivs[k], "start", 0) \div 30) <= i
                        /\ i < Clamp(Get(ivs[k], "end", 0) \div 30)}

Last(S) == CHOOSE k \in S : \A j \in S : j <= k

\* the days of Source B that are not emergency and list intervals, with the
\* group they belong to; the documents checked give today and tomorrow
\* different dates
YasnoNormalDays ==
    {<<grp, dn>> \in GroupSet \X Range(YasnoDayNames) :
        LET d == Get(Get(ya_data, GroupKey(grp), << >>), dn, None)
        IN /\ ~YasnoDaySkipped(d)
           /\ Get(d, "status", "") # "EmergencyShutdowns"
           /\ Get(d, "slots", << >>) # << >>}

YasnoDayOf(b) == ya_data[GroupKey(b[1])][b[2]]

\* every interval of the list carries its start, its end and its type
CompleteIntervals(ivs) ==
    \A k \in DOMAIN ivs : {"start", "end", "type"} \subseteq DOMAIN ivs[k]

\* C6: the timeline of a Source B day that is not emergency and lists
\* intervals has 48 slots, and slot i follows the last interval in input
\* order whose range [start div 30, end div 30), clamped to [0, 48],
\* contains i: on for the unplanned type, off otherwise, and on when no
\* interval contains it; for every integer start and end.
C6_ClampedLastWriteWins ==
    (pc \notin {"fetched", "github"}) =>
        \A b \in {x \in YasnoNormalDays : CompleteIntervals(YasnoDayOf(x)["slots"])} :
            /\ pc # "IndexError"
            /\ LET d == YasnoDayOf(b)
                   tl == ya_sched[b[1]][d["date"]].slots
               IN /\ Len(tl) = NSlots
                  /\ \A i \in 0..(NSlots - 1) :
                        LET cov == Covering(d["slots"], i)
                        IN tl[i + 1] = (IF cov = {} THEN TRUE
                                        ELSE Get(d["slots"][Last(cov)], "type", "None")
                                                = "NotPlanned")

\* the hours of a Source A payload that state an outage covering slot i
GithubOutageHours(d, i) ==
    {h \in Hours :
        /\ h \in DOMAIN d
        /\ \/ d[h] = "no" /\ i \in {2 * (h - 1), 2 * (h - 1) + 1}
           \/ d[h] = "first" /\ i = 2 * (h - 1)
           \/ d[h] = "second" /\ i = 2 * (h - 1) + 1}

\* the intervals of a Source B day that carry start, end and type and cover
\* slot i
YasnoOutageIntervals(ivs, i) ==
    {k \in DOMAIN ivs :
        /\ {"start", "end", "type"} \subseteq DOMAIN ivs[k]
        /\ ivs[k]["start"] \div 30 <= i
        /\ i < ivs[k]["end"] \div 30}

\* C8: absent data never produces an outage: a slot of a timeline is off
\* only if the feed states an outage covering it, a Source A hour tagged no,
\* first or second, or a Source B interval that carries its start, end and
\* type and covers the slot.
C8_NoOutageFromAbsentData ==
    /\ pc # "fetched" =>
          \A b \in GithubBuilt :
              LET e == GithubEntryOf(b)
              IN e.status = "normal" =>
                    \A i \in 0..(NSlots - 1) :
                        ~e.slots[i + 1] => GithubOutageHours(GithubPayload(b[1], b[2]), i) # {}
    /\ pc \in {"extracted", "formatted"} =>
          \A b \in YasnoNormalDays :
              LET d == YasnoDayOf(b)
                  tl == ya_sched[b[1]][d["date"]].slots
              IN \A i \in 0..(NSlots - 1) :
                    ~tl[i + 1] => YasnoOutageIntervals(d["slots"], i) # {}

\* the days of the snapshot whose payload reports hour 5 as no and every
\* other hour 1..24 as yes
HourFiveDays ==
    {b \in GithubBuilt :
        LET d == GithubPayload(b[1], b[2])
        IN /\ DOMAIN d = Hours
           /\ \A h \in Hours : d[h] = (IF h = 5 THEN "no" ELSE "yes")}

\* the renderings of Source A's day in the message, for a group and a date
GithubRenderings(grp, date) ==
    {m \in UNION {Range(day) : day \in UNION {Range(blk.body) :
                     blk \in {x \in Range(msg) : x.header = GroupKey(grp)}}} :
        m.date = date /\ m.label[1] = SourceName("github")}

\* the day of HourFiveDays is normal, its only outage period runs from
\* "from" to "to", and the totals read 1 godyna off and 23 godyny on, in the
\* periods and in the rendered message
HourFiveScenario(from, to) ==
    pc # "fetched" =>
        \A b \in HourFiveDays :
            LET e == GithubEntryOf(b)
                ps == slots_to_periods(e.slots)
                off == {k \in DOMAIN ps : ~ps[k].is_on}
            IN /\ e.status = "normal"
               /\ Cardinality(off) = 1
               /\ \A k \in off : ps[k].start = from /\ ps[k].end = to
               /\ TotalHours(ps, FALSE, 1) = 2
               /\ format_hours_full(TotalHours(ps, FALSE, 1)).word = "godyna"
               /\ TotalHours(ps, TRUE, 1) = 46
               /\ format_hours_full(TotalHours(ps, TRUE, 1)).word = "godyny"
               /\ pc = "formatted" =>
                     \A m \in GithubRenderings(b[1], DateOfTimestamp(b[2])) :
                         /\ m.body.summary.off = [n |-> 2, word |-> "godyna"]
                         /\ m.body.summary.on = [n |-> 46, word |-> "godyny"]
                         /\ \A k \in DOMAIN m.body.rows :
                               m.body.rows[k].column = "off"
                                  => m.body.rows[k].time_range = <<from, to>>

\* C9 as stated: hour 5 = no, every other hour yes, gives one outage period
\* 08:00-09:00, the other periods on, 1 hour off (singular form) and 23 hours
\* on (few form).
C9_HourFiveAsStated == HourFiveScenario(<<8, 0>>, <<9, 0>>)

\* C9 as amended: the outage period is 04:00-05:00; hour h of the feed covers
\* the slots 2(h-1) and 2(h-1)+1, the hour that ends at h o'clock.
C9_HourFiveOutage == HourFiveScenario(<<4, 0>>, <<5, 0>>)

C9_Witness ==
    /\ pc = "formatted"
    /\ \E b \in HourFiveDays : GithubRenderings(b[1], DateOfTimestamp(b[2])) # {}

\* the message's block of a group: its day entries, none when the group has
\* no block
BlockBody(grp) ==
    LET blks == {k \in DOMAIN msg : msg[k].header = GroupKey(grp)}
    IN IF blks = {} THEN << >> ELSE msg[CHOOSE k \in blks : TRUE].body

\* both sources have the day, both normal, the timelines equal in all slots
BothAgree(grp, date) ==
    /\ date \in DOMAIN Get(gh_sched, grp, << >>)
    /\ date \in DOMAIN Get(ya_sched, grp, << >>)
    /\ gh_sched[grp][date].status = "normal"
    /\ ya_sched[grp][date].status = "normal"
    /\ \A i \in 1..NSlots : gh_sched[grp][date].slots[i] = ya_sched[grp][date].slots[i]

\* the labels of one block per present source, Source A's first
SeparateLabels(grp, date) ==
    (IF date \in DOMAIN Get(gh_sched, grp, << >>)
     THEN << <<SourceName("github")>> >> ELSE << >>)
    \o (IF date \in DOMAIN Get(ya_sched, grp, << >>)
        THEN << <<SourceName("yasno")>> >> ELSE << >>)

CombinedLabel == <<SourceName("github"), SourceName("yasno")>>

\* C3: for every group and rendered date the message has exactly one block
\* with the combined label iff both sources have the day, both are normal
\* and the timelines agree in all 48 slots; otherwise one block per present
\* source, Source A's first.
C3_MergeExactness ==
    pc = "formatted" =>
        \A grp \in GroupSet :
            LET dates == RenderedDates(gh_sched, ya_sched, grp)
                body == BlockBody(grp)
            IN /\ Len(body) = Len(dates)
               /\ \A k \in DOMAIN dates :
                     LET labels == [j \in DOMAIN body[k] |-> body[k][j].label]
                     IN /\ (labels = <<CombinedLabel>>) <=> BothAgree(grp, dates[k])
                        /\ CombinedLabel \in Range(labels) => Len(labels) = 1
                        /\ ~BothAgree(grp, dates[k])
                              => labels = SeparateLabels(grp, dates[k])

\* the number of slots two timelines differ in
Differing(a, b) == Cardinality({i \in 1..NSlots : a[i] # b[i]})

\* a message with a merged day and, for the same group, a day whose normal
\* timelines differ in exactly one slot, rendered as two blocks
C3_Witness ==
    /\ pc = "formatted"
    /\ \E grp \in GroupSet :
          LET dates == RenderedDates(gh_sched, ya_sched, grp)
          IN /\ \E k \in DOMAIN dates : BothAgree(grp, dates[k])
             /\ \E k \in DOMAIN dates :
                   /\ dates[k] \in DOMAIN Get(gh_sched, grp, << >>)
                   /\ dates[k] \in DOMAIN Get(ya_sched, grp, << >>)
                   /\ gh_sched[grp][dates[k]].status = "normal"
                   /\ ya_sched[grp][dates[k]].status = "normal"
                   /\ Differing(gh_sched[grp][dates[k]].slots,
                                ya_sched[grp][dates[k]].slots) = 1
                   /\ Len(BlockBody(grp)[k]) = 2

----------------------------------------------------------------------------
(* The period compressor on its own                                        *)

\* every boolean timeline of at most MaxLen slots, and the 48-slot timelines
\* of the Source A payloads
Timelines ==
    UNION {[1..n -> BOOLEAN] : n \in 0..MaxLen}
    \cup {parse_github_day(d) : d \in PartialDays}

InitPeriods ==
    /\ pc = "timeline"
    /\ slots \in Timelines
    /\ periods = None
    /\ cfg_style = "table"
    /\ gh_data = None /\ ya_data = None
    /\ gh_sched = None /\ ya_sched = None /\ msg = None
    /\ RunIdle

\* periods = slots_to_periods(slots)
Compress ==
    /\ pc = "timeline"
    /\ periods' = slots_to_periods(slots)
    /\ pc' = "compressed"
    /\ UNCHANGED <<cfg_style, gh_data, ya_data, gh_sched, ya_sched, msg, slots,
                   cache, ids, chat, last>>

SpecPeriods == InitPeriods /\ [][Compress]_vars

RECURSIVE HoursBefore(_, _)
\* the half-hours of the periods before period k: the slot period k starts at
HoursBefore(ps, k) ==
    IF k <= 1 THEN 0 ELSE HoursBefore(ps, k - 1) + ps[k - 1].hours

\* C4: the periods of a non-empty timeline are contiguous and do not overlap
\* (the first starts at slot 0, each starts at the slot where the one before
\* ends, the last ends at len(timeline)), alternate is_on, carry the value of
\* every slot they cover, and their durations sum to len(timeline) * 0.5
\* hours; an empty timeline gives no periods.
C4_PeriodsCoverTimeline ==
    pc = "compressed" =>
        IF slots = << >> THEN periods = << >>
        ELSE LET n == Len(periods)
                 first(k) == HoursBefore(periods, k)
                 end(k) == HoursBefore(periods, k + 1)
             IN /\ n >= 1
                /\ first(1) = 0
                /\ end(n) = Len(slots)
                /\ \A k \in 1..n :
                      /\ periods[k].hours >= 1
                      /\ periods[k].start = format_slot_time(first(k))
                      /\ periods[k].end = format_slot_time(end(k))
                      /\ \A i \in first(k)..(end(k) - 1) :
                            slots[i + 1] = periods[k].is_on
                /\ \A k \in 1..(n - 1) :
                      /\ periods[k + 1].start = periods[k].end
                      /\ periods[k + 1].is_on # periods[k].is_on
                /\ TotalHours(periods, TRUE, 1) + TotalHours(periods, FALSE, 1)
                      = Len(slots)

\* a day's timeline compressed into three periods or more
C4_Witness ==
    /\ pc = "compressed"
    /\ Len(slots) = NSlots
    /\ Len(periods) >= 3

----------------------------------------------------------------------------
(* The run: main() against the cache file, the message-id file and the     *)
(* channel                                                                 *)

\* the channel delivers at most this many messages
MaxDeliveries == 4

\* what fetch_github may return: None (disabled or failed), a document with
\* no data for the groups, and one with a day of the first group
GithubFeeds ==
    <<None,
      GithubDoc([ts \in {FirstDayKey} |-> << >>]),
      GithubDoc([ts \in {FirstDayKey} |-> [g \in {Groups[1]} |-> NoAtFive]])>>

\* a Source B document with one day of the first group
YasnoToday(d) == [key \in {GroupKey(Groups[1])} |-> [dn \in {"today"} |-> d]]

\* what fetch_yasno may return: None, a day of the first group with an
\* outage, and one whose interval starts two days before it
YasnoFeeds ==
    <<None,
      YasnoToday([date |-> FirstDay, status |-> "ScheduleApplies",
                  slots |-> <<Outage(240, 300)>>]),
      YasnoToday([date |-> FirstDay, status |-> "ScheduleApplies",
                  slots |-> <<Outage(-2880, 300)>>])>>

\* serialize(s) of main
serialize(s) ==
    [g \in DOMAIN s |->
        [k \in DOMAIN s[g] |-> [status |-> s[g][k].status, slots |-> s[g][k].slots]]]

\* get_cache: the file's content, the empty state when it cannot be read.
\* The file is << >> when absent and <<content>> when written; json.dump and
\* json.load keep string keys, strings, booleans, null and lists as they are.
get_cache == IF cache = << >> THEN [github |-> << >>, yasno |-> << >>] ELSE cache[1]

\* extract_yasno raises on the document: the run ends there
YasnoRaises == [j \in DOMAIN YasnoFeeds |-> extract_yasno_raises(YasnoFeeds[j])]

\* gh_sched, ya_sched, new_c and msg of main for the documents a run may
\* fetch, computed once for each pair of documents
GithubSchedules == [i \in DOMAIN GithubFeeds |-> extract_github(GithubFeeds[i])]

YasnoSchedules ==
    [j \in DOMAIN YasnoFeeds |->
        IF YasnoRaises[j] THEN None ELSE extract_yasno(YasnoFeeds[j])]

NewCaches ==
    [i \in DOMAIN GithubFeeds |->
        [j \in DOMAIN YasnoFeeds |->
            [github |-> serialize(GithubSchedules[i]),
             yasno |-> serialize(YasnoSchedules[j])]]]

Messages ==
    [i \in DOMAIN GithubFeeds |->
        [j \in DOMAIN YasnoFeeds |->
            [st \in Styles |->
                IF YasnoRaises[j] THEN None
                ELSE format_msg(GithubSchedules[i], YasnoSchedules[j], st)]]]

\* the path main() takes on the documents GithubFeeds[i] and YasnoFeeds[j]:
\* sent is whether send_tg returns a message id, managed what manage_msgs
\* does ("ok", or the request that raises)
RunOutcome(i, j, sent, managed) ==
    IF GithubFeeds[i] = None /\ YasnoFeeds[j] = None THEN "no data"
    ELSE IF YasnoRaises[j] THEN "IndexError"
    ELSE IF NewCaches[i][j] = get_cache THEN "no changes"
    ELSE IF Messages[i][j][cfg_style] = None THEN "no message"
    ELSE IF ~sent THEN "send failed"
    ELSE IF managed # "ok" THEN "manage_msgs raised"
    ELSE "done"

\* save_cache(new_c) moved out of "if mid:"
CacheWritten_without_mid(outcome) == outcome \in {"done", "send failed"}

\* whether the run reaches save_cache(new_c)
CacheWritten(outcome) == outcome = "done"

\* the message id Telegram gives the next message
NextMessageId == chat.sent + 1

RECURSIVE DropOld(_)
\* the loop "while len(ids) > MAX_MESSAGES: ids.pop(0)" of manage_msgs
DropOld(list) == IF Len(list) > MAX_MESSAGES THEN DropOld(Tail(list)) ELSE list

\* the ids manage_msgs deletes from the channel
Deleted(list) == Range(list) \ Range(DropOld(list))

\* the channel after the run: send_tg adds the message; manage_msgs pins it
\* and deletes the old ones, as far as it gets
ChatAfter(outcome, managed) ==
    IF outcome \notin {"done", "manage_msgs raised"} THEN chat
    ELSE LET mid == NextMessageId
             kept == Append(ids, mid)
         IN [sent |-> mid,
             messages |-> IF outcome = "done"
                          THEN (chat.messages \cup {mid}) \ Deleted(kept)
                          ELSE chat.messages \cup {mid},
             pinned |-> IF managed = "pin raises" THEN chat.pinned ELSE mid]

\* message_ids.json after the run: manage_msgs writes it last
IdsAfter(outcome) ==
    IF outcome = "done" THEN DropOld(Append(ids, NextMessageId)) ELSE ids

\* what manage_msgs may do for the ids on file: return, or raise at the pin
\* request, or at the delete request when there is a message to delete
ManageOutcomes ==
    {"ok", "pin raises"}
    \cup (IF Len(ids) + 1 > MAX_MESSAGES THEN {"delete raises"} ELSE {})

\* one run of main() on the documents GithubFeeds[i] and YasnoFeeds[j], with
\* the collaborators' answers; gh_sched, ya_sched and msg live for the run
main(i, j, sent, managed) ==
    LET outcome == RunOutcome(i, j, sent, managed)
        extracted == outcome \notin {"no data", "IndexError"}
        changed == extracted /\ outcome # "no changes"
        generated == changed /\ outcome # "no message"
    IN /\ gh_data' = GithubFeeds[i]
       /\ ya_data' = YasnoFeeds[j]
       /\ cache' = (IF CacheWritten(outcome) THEN <<NewCaches[i][j]>> ELSE cache)
       /\ ids' = IdsAfter(outcome)
       /\ chat' = ChatAfter(outcome, managed)
       /\ last' = [outcome |-> outcome,
                   changed |-> changed,
                   generated |-> generated,
                   attempted |-> generated,
                   delivered |-> generated /\ sent,
                   new_c |-> IF extracted THEN NewCaches[i][j] ELSE None]
       /\ UNCHANGED <<pc, cfg_style, gh_sched, ya_sched, msg, slots, periods>>

\* a run with the given answers of the collaborators that takes the path
RunWith(path, sent, managed) ==
    \E i \in DOMAIN GithubFeeds, j \in DOMAIN YasnoFeeds :
        /\ RunOutcome(i, j, sent, managed) = path
        /\ main(i, j, sent, managed)

\* "No data from any source"
RunNoData == RunWith("no data", FALSE, "ok")

\* extract_yasno raises and the run ends with the traceback
RunIndexError == RunWith("IndexError", FALSE, "ok")

\* "No changes."
RunNoChanges == RunWith("no changes", FALSE, "ok")

\* "No message generated"
RunNoMessage == RunWith("no message", FALSE, "ok")

\* "Failed to send message"
RunSendFailed == RunWith("send failed", FALSE, "ok")

\* the message is delivered and manage_msgs raises
RunManageRaised ==
    /\ chat.sent < MaxDeliveries
    /\ \E managed \in ManageOutcomes \ {"ok"} :
          RunWith("manage_msgs raised", TRUE, managed)

\* "Done."
RunDone ==
    /\ chat.sent < MaxDeliveries
    /\ RunWith("done", TRUE, "ok")

Init ==
    /\ pc = "runs"
    /\ cfg_style \in Styles
    /\ gh_data = None /\ ya_data = None
    /\ gh_sched = None /\ ya_sched = None /\ msg = None
    /\ slots = None /\ periods = None
    /\ cache = << >>
    /\ ids = << >>
    /\ chat = [sent |-> 0, messages |-> {}, pinned |-> 0]
    /\ last = [outcome |-> "none", changed |-> FALSE, generated |-> FALSE,
               attempted |-> FALSE, delivered |-> FALSE, new_c |-> None]

Next ==
    \/ RunNoData
    \/ RunIndexError
    \/ RunNoChanges
    \/ RunNoMessage
    \/ RunSendFailed
    \/ RunManageRaised
    \/ RunDone

Spec == Init /\ [][Next]_vars

----------------------------------------------------------------------------
(* Claims about the run                                                    *)

\* C1: a run overwrites the persisted CacheState only if, in that run, the
\* new CacheState differed from the persisted one, format_msg produced a
\* message and send_tg delivered it, and it writes the new CacheState; every
\* other run leaves the file as it was.
C1_CacheOnlyAfterDelivery ==
    [][cache' # cache =>
          /\ last'.new_c # get_cache
          /\ last'.changed /\ last'.generated /\ last'.delivered
          /\ cache' = <<last'.new_c>>]_vars

\* a run has delivered a message and written the cache, and a later run with
\* a failed delivery has left it as it was
C1_Witness ==
    /\ last.outcome = "send failed"
    /\ cache # << >>
    /\ cache # <<last.new_c>>

\* the next run receives the feed data of the latest one
SameData == gh_data' = gh_data /\ ya_data' = ya_data

\* C2: after a run whose delivery failed, the next run with the same data
\* again detects the change and attempts delivery, until a delivery succeeds;
\* after that a run with the same data detects no change and sends nothing.
C2_RetryUntilDelivered ==
    [][SameData =>
          /\ last.outcome = "send failed" => last'.changed /\ last'.attempted
          /\ last.delivered => last'.outcome = "no changes" /\ chat'.sent = chat.sent]_vars

\* the half of C2 that does not depend on manage_msgs: a failed delivery is
\* tried again by the next run with the same data
C2_FailedSendIsRetried ==
    [][SameData /\ last.outcome = "send failed"
          => last'.changed /\ last'.attempted]_vars

\* C10: a run in which send_tg delivers the message persists the new
\* CacheState before it ends, whatever manage_msgs does.
C10_DeliveredIsPersisted == last.delivered => cache = <<last.new_c>>

=============================================================================
